---- MODULE Spec2Model ----
(***************************************************************************)
(* Model of the code_context_retriever pipeline:                           *)
(*   indexing/vector_index.py   VectorIndex (build, search, save, load)    *)
(*   embedding/embedder.py      Embedder (embed, batch_embed, disk cache)  *)
(*   retrieval/retriever.py     CodeContextRetriever (query, raw_query)    *)
(*                                                                         *)
(* Numbers: vectors have small integer coordinates chosen so that every    *)
(* norm and every pairwise Euclidean distance is an integer, which makes   *)
(* numpy's sqrt exact.  A real number is a pair <<num, den>> with den >= 0 *)
(* (den = 0 stands for the float32 extreme FLT_MAX that FAISS reports for  *)
(* a missing neighbour).                                                   *)
(***************************************************************************)
EXTENDS Integers, Sequences, FiniteSets, TLC

VARIABLES
    \* ---- VectorIndex instance and its index directory
    use_faiss,      \* VectorIndex.use_faiss
    metric,         \* VectorIndex.metric
    index,          \* VectorIndex.index
    metadata,       \* VectorIndex.metadata
    dimension,      \* VectorIndex.dimension
    metaFile,       \* <index_dir>/<name>.metadata
    indexFile,      \* <index_dir>/<name>.index
    saved,          \* history: the instance as it was at the last save of a built index
    ret             \* the last VectorIndex call and what it returned

VARIABLES
    \* ---- Embedder instance and its cache directory
    provider,       \* the embedding provider behind Embedder.local_model / Embedder.embedder
    use_cache,      \* Embedder.use_cache
    cache,          \* <cache_dir>/<md5(text)>.npy, per text
    epc,            \* batch_embed: "idle", "running" or "done"
    texts,          \* batch_embed: its texts argument
    bsz,            \* batch_embed: the batch size in effect
    wst,            \* batch_embed: per group, the worker running _process_batch on it
    slots,          \* batch_embed: batch_results
    out,            \* batch_embed: the matrix returned
    calls,          \* history: provider calls made during this batch_embed
    clean,          \* history: no provider call, group or cache write failed during it
    prev,           \* history: the preceding batch_embed, when it had the same texts
    eret            \* the last embed call and what it returned

VARIABLES
    \* ---- CodeContextRetriever instance and the configuration it was made from
    retriever,      \* CodeContextRetriever.retriever: TRUE once it is an EnhancedCodeRetriever
    threshold,      \* config['retriever'].get('threshold')
    default_top_k,  \* EnhancedCodeRetriever.top_k
    qret            \* the last query / raw_query call and what it returned

VARIABLES
    \* ---- the files of the code base and the calls that look at them
    fs,             \* the paths that are regular files on disk (os.path.isfile)
    content,        \* the text of the file handed to an extractor
    xret,           \* the last _should_exclude / extract_chunks call and what it returned
    files_to_process,   \* index_codebase: the eligible files, in walk order
    parallel,       \* index_codebase: extraction runs on the thread pool
    pending,        \* index_codebase: positions of the files not yet taken
    failed,         \* history: positions of the files whose extraction raised
    all_chunks,     \* index_codebase: all_chunks
    xpc             \* index_codebase: "idle", "extract" or "done"

VARIABLES
    \* ---- the API server's rate limiting middleware
    rate_limits,    \* app.state.rate_limits: per client IP, (timestamp, count) or nothing
    now,            \* time.time(), in seconds
    handling,       \* per client IP, the requests that are inside call_next
    arrived,        \* history: the requests received so far
    in_window,      \* history: per client IP, the requests passed to the handler
                    \* during the window of the recorded timestamp
    aret            \* the last response of the middleware

ivars == <<use_faiss, metric, index, metadata, dimension, metaFile, indexFile, saved, ret>>

evars == <<provider, use_cache, cache, epc, texts, bsz, wst, slots, out,
           calls, clean, prev, eret>>

qvars == <<retriever, threshold, default_top_k, qret>>

xvars == <<fs, content, xret, files_to_process, parallel, pending, failed, all_chunks, xpc>>

\* what the index, the embedder and the retriever leave alone
avars == <<rate_limits, now, handling, arrived, in_window, aret>>

rest == <<xvars, avars>>

vars == <<ivars, evars, qvars, rest>>

(***************************************************************************)
(* Bounds of the model                                                     *)
(***************************************************************************)
MaxN == 2           \* most vectors / metadata entries handed to one build
MaxK == 3           \* largest top_k asked of search

MaxLen == 3         \* most texts handed to one batch_embed
MaxBatch == 2       \* largest batch_size argument, and the configured batch_size
MaxWorkers == 2     \* Embedder.max_workers

MaxChunks == 3      \* most chunks index_codebase extracts from a code base

Texts == {1, 2}     \* distinct input texts
Providers == 1..2   \* embedding providers: 1 is a local sentence-transformers
                    \* model, 2 a DSPy embedder
Chunks == 1..MaxN   \* chunk identities: a metadata entry is a chunk
QChunks == 1..4     \* the chunks whose embeddings serve as query vectors
Orders == {"asc", "desc"}
Dims == {1, 2}      \* dimensionalities of the embedding matrices
Metrics == {"l2", "cosine"}

(***************************************************************************)
(* Arithmetic helpers                                                      *)
(***************************************************************************)
Min(a, b) == IF a <= b THEN a ELSE b

Abs(a) == IF a < 0 THEN -a ELSE a

\* numpy.sqrt on the perfect squares the vector domain produces
Sqrt(n) == CHOOSE r \in 0..n : r * r <= n /\ (r + 1) * (r + 1) > n

\* a <= b for reals <<num, den>>
RLeq(a, b) == IF a[2] = b[2] THEN a[1] <= b[1] ELSE a[1] * b[2] <= b[1] * a[2]

RLess(a, b) == ~RLeq(b, a)

\* the 1e-6 of the l2 score, as 1 / EpsDen
EpsDen == 1000000

\* The embedding of chunk c in d dimensions (the caller's input to build and
\* search).  d = 1: -1, 0, 1, ...; d = 2: corners of the 3 x 4 rectangle.
Vec(d, c) ==
    IF d = 1 THEN <<c - 2>>
    ELSE <<3 * (c % 2), 4 * ((c \div 2) % 2)>>

SumSq(v) == IF Len(v) = 1 THEN v[1] * v[1] ELSE v[1] * v[1] + v[2] * v[2]

Dot(a, b) == IF Len(a) = 1 THEN a[1] * b[1] ELSE a[1] * b[1] + a[2] * b[2]

Norm(v) == Sqrt(SumSq(v))

Sub(a, b) == [i \in 1..Len(a) |-> a[i] - b[i]]

\* A stored vector is v / n.  faiss.normalize_L2 divides by the norm and
\* leaves a zero vector alone.
Raw(v) == [v |-> v, n |-> 1]

NormalizeL2(v) == [v |-> v, n |-> IF Norm(v) = 0 THEN 1 ELSE Norm(v)]

(***************************************************************************)
(* VectorIndex: values                                                     *)
(***************************************************************************)
NoDim == 0                          \* dimension = None

NoIndex == [kind |-> "none"]        \* index = None

NoFile == [fmt |-> "absent"]

NoSnap == [built |-> FALSE]

NoRet == [op |-> "init"]

(***************************************************************************)
(* Sorting and slicing as numpy and Python do them                         *)
(***************************************************************************)
RSame(a, b) == RLeq(a, b) /\ RLeq(b, a)

RNeg(a) == <<-a[1], a[2]>>

RMax(keys) == CHOOSE m \in {keys[i] : i \in DOMAIN keys} :
                  \A i \in DOMAIN keys : RLeq(keys[i], m)

\* position of entry i in a stable ascending sort of keys
Rank(keys, i) ==
    1 + Cardinality({j \in DOMAIN keys :
                        RLess(keys[j], keys[i]) \/ (RSame(keys[j], keys[i]) /\ j < i)})

\* numpy.argsort (stable on ties), 1-based
ArgSort(keys) ==
    [r \in 1..Len(keys) |-> CHOOSE i \in 1..Len(keys) : Rank(keys, i) = r]

Reverse(s) == [i \in 1..Len(s) |-> s[Len(s) + 1 - i]]

\* s[:m] for m >= 0
SliceFirst(s, m) == SubSeq(s, 1, Min(m, Len(s)))

\* s[-m:] for m >= 0; -0 is 0, so s[-0:] is the whole of s
SliceLast(s, m) == IF m = 0 THEN s ELSE SubSeq(s, Len(s) - Min(m, Len(s)) + 1, Len(s))

(***************************************************************************)
(* The FAISS flat indexes (external library, by its documented behaviour): *)
(* IndexFlatIP ranks by inner product, largest first; IndexFlatL2 ranks by *)
(* squared Euclidean distance, smallest first; a search for more           *)
(* neighbours than are stored pads with label -1 and -FLT_MAX / FLT_MAX.   *)
(* A hit is <<label, distance>>, label 0 standing for -1.                  *)
(***************************************************************************)
InnerProduct(x, q) == <<Dot(x.v, q.v), x.n * q.n>>

Scale(v, n) == [i \in 1..Len(v) |-> v[i] * n]

\* |x - q|^2 for x = x.v / x.n and q = q.v / q.n
SquaredL2(x, q) ==
    <<SumSq(Sub(Scale(x.v, q.n), Scale(q.v, x.n))), (x.n * q.n) * (x.n * q.n)>>

FltMax == <<1, 0>>

FaissDistances(ix, q) ==
    [i \in 1..Len(ix.vecs) |->
        IF ix.kind = "IP" THEN InnerProduct(ix.vecs[i], q) ELSE SquaredL2(ix.vecs[i], q)]

FaissSearch(ix, q, k) ==
    LET dist == FaissDistances(ix, q)
        order == IF ix.kind = "IP"
                 THEN ArgSort([i \in 1..Len(dist) |-> RNeg(dist[i])])
                 ELSE ArgSort(dist)
        pad == IF ix.kind = "IP" THEN RNeg(FltMax) ELSE FltMax
    IN  [i \in 1..k |-> IF i <= Len(order) THEN <<order[i], dist[order[i]]>>
                        ELSE <<0, pad>>]

(***************************************************************************)
(* VectorIndex.search                                                      *)
(***************************************************************************)
Result(m, score, distance) == [meta |-> m, score |-> score, distance |-> distance]

Returned(val) == [raised |-> FALSE, val |-> val]

Raised == [raised |-> TRUE, val |-> <<>>]

RSign(a) == IF a[2] < 0 THEN <<-a[1], -a[2]>> ELSE a

\* 1 - d / (dmax + 1e-6); with FLT_MAX involved, what float32 rounds it to
L2Score(d, dmax) ==
    IF dmax[2] = 0 THEN (IF d[2] = 0 THEN <<0, 1>> ELSE <<1, 1>>)
    ELSE LET maxnum == dmax[1] * EpsDen + dmax[2]      \* max_dist = maxnum / (dmax[2] * EpsDen)
         IN  IF d[2] = 0
             THEN (IF (d[1] > 0) = (maxnum > 0) THEN RNeg(FltMax) ELSE FltMax)
             ELSE RSign(<<d[2] * maxnum - d[1] * dmax[2] * EpsDen, d[2] * maxnum>>)

\* lines 113-119: keep a hit when idx < len(metadata); metadata[-1] is the last entry
FaissResults(hits, sims, md) ==
    LET keep == {i \in 1..Len(hits) : hits[i][1] <= Len(md)}
        pos(r) == CHOOSE i \in keep : Cardinality({j \in keep : j < i}) = r - 1
    IN  [r \in 1..Cardinality(keep) |->
            LET i == pos(r)
                idx == IF hits[i][1] = 0 THEN Len(md) ELSE hits[i][1]
            IN  Result(md[idx], sims[i], hits[i][2])]

SearchFaiss(ix, mt, md, q, top_k) ==
    LET k == Min(top_k, Len(md))
    IN  IF k = 0 THEN Raised
        ELSE IF mt = "cosine"
        THEN LET hits == FaissSearch(ix, NormalizeL2(q), k)
                 sims == [i \in 1..k |-> hits[i][2]]
             IN  Returned(FaissResults(hits, sims, md))
        ELSE LET hits == FaissSearch(ix, Raw(q), k)
                 dmax == RMax([i \in 1..k |-> hits[i][2]])
                 sims == [i \in 1..k |-> L2Score(hits[i][2], dmax)]
             IN  Returned(FaissResults(hits, sims, md))

\* sklearn cosine_similarity: rows are normalised, a zero row stays zero
CosineSimilarity(q, x) == InnerProduct(NormalizeL2(x.v), NormalizeL2(q))

RComplement(a) == <<a[2] - a[1], a[2]>>

SearchBruteCosine(ix, md, q, top_k) ==
    LET sim == [i \in 1..Len(ix.vecs) |-> CosineSimilarity(q, ix.vecs[i])]
        top == Reverse(SliceLast(ArgSort(sim), Min(top_k, Len(md))))
    IN  IF \E r \in 1..Len(top) : top[r] > Len(md) THEN Raised
        ELSE Returned([r \in 1..Len(top) |->
                 Result(md[top[r]], sim[top[r]], RComplement(sim[top[r]]))])

SearchBruteL2(ix, md, q, top_k) ==
    LET dist == [i \in 1..Len(ix.vecs) |-> <<Sqrt(SumSq(Sub(ix.vecs[i].v, q))), 1>>]
        top == SliceFirst(ArgSort(dist), Min(top_k, Len(md)))
    IN  IF \E r \in 1..Len(top) : top[r] > Len(md) THEN Raised
        ELSE Returned([r \in 1..Len(top) |->
                 Result(md[top[r]], L2Score(dist[top[r]], RMax(dist)), dist[top[r]])])

\* search(query_embedding, top_k) on an instance with fields (uf, mt, ix, md)
SearchIn(uf, mt, ix, md, q, top_k) ==
    IF ix = NoIndex THEN Returned(<<>>)
    ELSE IF uf THEN SearchFaiss(ix, mt, md, q, top_k)
    ELSE IF mt = "cosine" THEN SearchBruteCosine(ix, md, q, top_k)
    ELSE SearchBruteL2(ix, md, q, top_k)

VDim(ix) == Len(ix.vecs[1].v)

\* the query vectors tried on an index: every embedding of its dimensionality
Queries(ix) == IF ix = NoIndex THEN {Vec(2, c) : c \in QChunks}
               ELSE {Vec(VDim(ix), c) : c \in QChunks}

(***************************************************************************)
(* Embedder: values                                                        *)
(***************************************************************************)
\* get_sentence_embedding_dimension() / len(self.embedder("test"))
DimOf(p) == p + 1

\* the provider object is a local model (one encode call per group) or a
\* DSPy embedder (one call per text)
IsLocal(p) == p = 1

\* what provider p computes for text t: DimOf(p) coordinates, none of them 0
ProvVec(p, t) == [i \in 1..DimOf(p) |-> 10 * p + t]

\* np.zeros(d)
Zeros(d) == [i \in 1..d |-> 0]

\* no cache file for the text
NoEntry == <<>>

\* a cache file that np.save has opened, and so truncated, and not yet
\* written in full: np.load raises on it
Partial == <<-1>>

NoPrev == [valid |-> FALSE]

NoERet == [op |-> "none"]

NoThreshold == <<0, 0>>             \* threshold = None

NoQRet == [op |-> "none"]

\* a CodeContextRetriever that has indexed nothing
IdleQueryVars ==
    /\ retriever = FALSE
    /\ threshold = NoThreshold
    /\ default_top_k = 1
    /\ qret = NoQRet

NoXRet == [op |-> "none"]

\* no code base looked at
IdleWalk ==
    /\ files_to_process = <<>>
    /\ parallel = FALSE
    /\ pending = {}
    /\ failed = {}
    /\ all_chunks = <<>>
    /\ xpc = "idle"

IdleExtractVars ==
    /\ fs = {}
    /\ content = <<>>
    /\ xret = NoXRet
    /\ IdleWalk

IPs == {1, 2}       \* client addresses

NoLimit == <<>>     \* no rate_limits entry for the client

NoARet == [op |-> "none"]

\* a server that has received nothing
IdleApiVars ==
    /\ rate_limits = [ip \in IPs |-> NoLimit]
    /\ now = 0
    /\ handling = [ip \in IPs |-> 0]
    /\ arrived = 0
    /\ in_window = [ip \in IPs |-> 0]
    /\ aret = NoARet

IdleRest == IdleExtractVars /\ IdleApiVars

\* the text lists handed to batch_embed: the two texts in turn, starting
\* with either, so that a text recurs in a later group
TextList(o, n) == [i \in 1..n |-> IF (o = "asc") = (i % 2 = 1) THEN 1 ELSE 2]

\* an Embedder on which nothing is running
IdleRun ==
    /\ epc = "idle"
    /\ texts = <<>>
    /\ bsz = 0
    /\ wst = <<>>
    /\ slots = <<>>
    /\ out = <<>>
    /\ calls = 0
    /\ clean = TRUE
    /\ prev = NoPrev
    /\ eret = NoERet

IdleEmbedVars ==
    /\ provider = 1
    /\ use_cache = TRUE
    /\ cache = [t \in Texts |-> NoEntry]
    /\ IdleRun

(***************************************************************************)
(* VectorIndex: state and operations                                       *)
(***************************************************************************)
Built == index # NoIndex

Embeddings(d, chunks) == [i \in 1..Len(chunks) |-> Vec(d, chunks[i])]

\* the chunk lists handed to build: the first n chunks in file order or in
\* reverse order (concurrent extraction leaves the order open)
ChunkList(o, n) == [i \in 1..n |-> IF o = "asc" THEN i ELSE MaxN + 1 - i]

\* the caller pairs embedding i with metadata entry i wherever both exist
Paired(chunks, md) ==
    \A i \in 1..Min(Len(chunks), Len(md)) : chunks[i] = md[i]

\* a build that adds the matrix to the vectors already held
BuildIndexMerged(uf, mt, embeddings) ==
    [kind |-> IF uf THEN (IF mt = "cosine" THEN "IP" ELSE "L2") ELSE "np",
     vecs |-> (IF index = NoIndex THEN <<>> ELSE index.vecs)
                  \o [i \in 1..Len(embeddings) |-> Raw(embeddings[i])]]

\* lines 66-78: the searchable structure build makes of the float32 matrix
BuildIndex(uf, mt, embeddings) ==
    IF uf
    THEN IF mt = "cosine"
         THEN [kind |-> "IP",
               vecs |-> [i \in 1..Len(embeddings) |-> NormalizeL2(embeddings[i])]]
         ELSE [kind |-> "L2", vecs |-> [i \in 1..Len(embeddings) |-> Raw(embeddings[i])]]
    ELSE [kind |-> "np", vecs |-> [i \in 1..Len(embeddings) |-> Raw(embeddings[i])]]

InitIndexVars ==
    /\ use_faiss \in BOOLEAN
    /\ metric \in Metrics
    /\ index = NoIndex
    /\ metadata = <<>>
    /\ dimension = NoDim
    /\ metaFile = NoFile
    /\ indexFile = NoFile
    /\ saved = NoSnap
    /\ ret = NoRet

InitIndex == InitIndexVars /\ IdleEmbedVars /\ IdleQueryVars /\ IdleRest

\* VectorIndex(config) over the same index directory
New(mt) ==
    /\ metric' = mt
    /\ index' = NoIndex
    /\ metadata' = <<>>
    /\ dimension' = NoDim
    /\ ret' = [op |-> "new"]
    /\ UNCHANGED <<use_faiss, metaFile, indexFile, saved>>
    /\ UNCHANGED <<evars, qvars, rest>>

\* build(embeddings, metadata), embeddings being the d-dimensional vectors of
\* chunks; ret records the arguments and the dimensionality of the vectors
\* the instance held
Build(d, chunks, md) ==
    /\ Paired(chunks, md)
    /\ IF Len(chunks) = 0
       THEN UNCHANGED <<index, metadata, dimension>>
       ELSE /\ metadata' = md
            /\ dimension' = d
            /\ index' = BuildIndex(use_faiss, metric, Embeddings(d, chunks))
    /\ ret' = IF Len(chunks) = 0
              THEN [op |-> "build", nvec |-> 0, nmeta |-> Len(md), raised |-> FALSE]
              ELSE [op |-> "build", nvec |-> Len(chunks), nmeta |-> Len(md),
                    raised |-> FALSE, d |-> d, chunks |-> chunks, md |-> md,
                    was |-> IF Built THEN VDim(index) ELSE NoDim]
    /\ UNCHANGED <<use_faiss, metric, metaFile, indexFile, saved>>
    /\ UNCHANGED <<evars, qvars, rest>>

\* search(query_embedding, top_k)
Search(q, top_k) ==
    /\ LET r == SearchIn(use_faiss, metric, index, metadata, q, top_k)
       IN  ret' = [op |-> "search", q |-> q, top_k |-> top_k,
                   raised |-> r.raised, val |-> r.val]
    /\ UNCHANGED <<use_faiss, metric, index, metadata, dimension, metaFile, indexFile, saved>>
    /\ UNCHANGED <<evars, qvars, rest>>

\* lines 163-168: pickle.dump of the envelope
Envelope(md, dim, mt) == [fmt |-> "pickle", metadata |-> md, dimension |-> dim, metric |-> mt]

\* lines 171-175: faiss.write_index raises on None and writes nothing;
\* np.save pickles None as an object array
WriteIndex(uf, ix, old) ==
    IF uf
    THEN (IF ix = NoIndex THEN old ELSE [fmt |-> "faiss", kind |-> ix.kind, vecs |-> ix.vecs])
    ELSE (IF ix = NoIndex THEN [fmt |-> "npy_object"] ELSE [fmt |-> "npy", vecs |-> ix.vecs])

Snapshot == [built |-> TRUE, metric |-> metric, index |-> index,
             metadata |-> metadata, dimension |-> dimension]

\* save(name)
Save ==
    /\ metaFile' = Envelope(metadata, dimension, metric)
    /\ indexFile' = WriteIndex(use_faiss, index, indexFile)
    /\ saved' = IF Built THEN Snapshot ELSE NoSnap
    /\ ret' = [op |-> "save"]
    /\ UNCHANGED <<use_faiss, metric, index, metadata, dimension>>
    /\ UNCHANGED <<evars, qvars, rest>>

\* lines 207-211: faiss.read_index / np.load (allow_pickle is off) of the file
Readable(uf, file) == IF uf THEN file.fmt = "faiss" ELSE file.fmt = "npy"

\* a read that yields no index
ReadIndexNone(uf, file) == NoIndex

ReadIndex(uf, file) ==
    IF uf THEN [kind |-> file.kind, vecs |-> file.vecs]
    ELSE [kind |-> "np", vecs |-> file.vecs]

\* a load that keeps the metric the instance was configured with
LoadedMetricConfigured(env, configured) == configured

\* line 204: the envelope's metric, the configured one when it has none
LoadedMetric(env, configured) == env.metric

Fresh == index = NoIndex /\ metadata = <<>> /\ dimension = NoDim

\* a load that reports success whatever happened
LoadReturnsTrue(ok) == TRUE

\* lines 214 and 217: return True, or False from the except clause
LoadReturns(ok) == ok

\* pickle.load reads the envelope
Unpickles(file) == file.fmt = "pickle"

\* load(name)
Load ==
    /\ IF metaFile = NoFile \/ indexFile = NoFile
       THEN /\ ret' = [op |-> "load", val |-> FALSE, fresh |-> Fresh]
            /\ UNCHANGED <<metric, index, metadata, dimension>>
       ELSE IF ~Unpickles(metaFile)
       THEN /\ ret' = [op |-> "load", val |-> LoadReturns(FALSE), fresh |-> Fresh]
            /\ UNCHANGED <<metric, index, metadata, dimension>>
       ELSE /\ metadata' = metaFile.metadata
            /\ dimension' = metaFile.dimension
            /\ metric' = LoadedMetric(metaFile, metric)
            /\ IF Readable(use_faiss, indexFile)
               THEN /\ index' = ReadIndex(use_faiss, indexFile)
                    /\ ret' = [op |-> "load", val |-> LoadReturns(TRUE), fresh |-> Fresh]
               ELSE /\ index' = index
                    /\ ret' = [op |-> "load", val |-> LoadReturns(FALSE), fresh |-> Fresh]
    /\ UNCHANGED <<use_faiss, metaFile, indexFile, saved>>
    /\ UNCHANGED <<evars, qvars, rest>>

\* a file of the index directory damaged from outside: neither pickle.load
\* nor faiss.read_index nor np.load can decode it
Damaged == [fmt |-> "damaged"]

DamageMeta ==
    /\ metaFile \notin {NoFile, Damaged}
    /\ metaFile' = Damaged
    /\ ret' = [op |-> "damage"]
    /\ UNCHANGED <<use_faiss, metric, index, metadata, dimension, indexFile, saved>>
    /\ UNCHANGED <<evars, qvars, rest>>

DamageIndex ==
    /\ indexFile \notin {NoFile, Damaged}
    /\ indexFile' = Damaged
    /\ ret' = [op |-> "damage"]
    /\ UNCHANGED <<use_faiss, metric, index, metadata, dimension, metaFile, saved>>
    /\ UNCHANGED <<evars, qvars, rest>>

\* build, save and load on instances sharing one index directory
NextIndex ==
    \/ \E mt \in Metrics : New(mt)
    \/ \E d \in Dims, o \in Orders, n \in 0..MaxN, m \in 0..MaxN :
           Build(d, ChunkList(o, n), ChunkList(o, m))
    \/ Save
    \/ Load

SpecIndex == InitIndex /\ [][NextIndex]_vars

\* the same, for callers that always hand build as many metadata entries as vectors
NextIndexPaired ==
    \/ \E mt \in Metrics : New(mt)
    \/ \E d \in Dims, o \in Orders, n \in 0..MaxN :
           Build(d, ChunkList(o, n), ChunkList(o, n))
    \/ Save
    \/ Load

SpecIndexPaired == InitIndex /\ [][NextIndexPaired]_vars

\* build, save and load over an index directory whose files can be damaged
NextLoad ==
    \/ \E mt \in Metrics : New(mt)
    \/ \E d \in Dims, o \in Orders, n \in 0..MaxN :
           Build(d, ChunkList(o, n), ChunkList(o, n))
    \/ Save
    \/ Load
    \/ DamageMeta
    \/ DamageIndex

SpecLoad == InitIndex /\ [][NextLoad]_vars

\* build and search on one instance
NextSearch ==
    \/ \E mt \in Metrics : New(mt)
    \/ \E d \in Dims, o \in Orders, n \in 0..MaxN, m \in 0..MaxN :
           Build(d, ChunkList(o, n), ChunkList(o, m))
    \/ \E q \in Queries(index), k \in 0..MaxK : Search(q, k)

SpecSearch == InitIndex /\ [][NextSearch]_vars

(***************************************************************************)
(* Embedder: embed, batch_embed and the workers of its thread pool         *)
(***************************************************************************)
IdleIndexVars ==
    /\ use_faiss = FALSE
    /\ metric = "l2"
    /\ index = NoIndex
    /\ metadata = <<>>
    /\ dimension = NoDim
    /\ metaFile = NoFile
    /\ indexFile = NoFile
    /\ saved = NoSnap
    /\ ret = NoRet

InitEmbed ==
    /\ provider \in Providers
    /\ use_cache \in BOOLEAN
    /\ cache = [t \in Texts |-> NoEntry]
    /\ epc = "idle"
    /\ texts = <<>>
    /\ bsz = 0
    /\ wst = <<>>
    /\ slots = <<>>
    /\ out = <<>>
    /\ calls = 0
    /\ clean = TRUE
    /\ prev = NoPrev
    /\ eret = NoERet
    /\ IdleIndexVars
    /\ IdleQueryVars
    /\ IdleRest

embed_dim == DimOf(provider)

\* Embedder(config) with another model, over the same cache directory
NewEmbedder(p, uc) ==
    /\ epc # "running"
    /\ provider' = p
    /\ use_cache' = uc
    /\ epc' = "idle"
    /\ texts' = <<>>
    /\ bsz' = 0
    /\ wst' = <<>>
    /\ slots' = <<>>
    /\ out' = <<>>
    /\ calls' = 0
    /\ clean' = TRUE
    /\ prev' = NoPrev
    /\ eret' = NoERet
    /\ UNCHANGED cache
    /\ UNCHANGED <<ivars, qvars, rest>>

\* a cache in which nothing is ever found
GetFromCacheNever(c, t) == NoEntry

\* a read that takes a half-written file for a vector of zeros
GetFromCacheTorn(c, t) == IF c[t] = Partial THEN Zeros(embed_dim) ELSE c[t]

\* _get_from_cache: whatever vector the file of the text holds, None when
\* there is no file or np.load raises
GetFromCache(c, t) == IF c[t] = Partial THEN NoEntry ELSE c[t]

\* a cache that stores nothing
SaveToCacheNever(c, t, v, wrote) == c

\* _save_to_cache; the write may fail, which is logged and ignored
SaveToCache(c, t, v, wrote) == IF wrote THEN [c EXCEPT ![t] = v] ELSE c

\* an except clause that caches the vector of zeros it returns
CacheAfterFailureZeros(c, t) == [c EXCEPT ![t] = Zeros(embed_dim)]

\* lines 105-108: the except clause of embed returns np.zeros and writes
\* nothing to the cache
CacheAfterFailure(c, t) == c

\* embed(text); eret records the entry the text had before the call, whether
\* the provider was called, whether that call failed and whether the
\* result was written to the cache
Embed(t) ==
    /\ epc # "running"
    /\ \E before \in {GetFromCache(cache, t)} :
       IF use_cache /\ before # NoEntry
       THEN /\ eret' = [op |-> "embed", text |-> t, val |-> before, fromCache |-> TRUE,
                        before |-> cache[t], called |-> FALSE, failed |-> FALSE,
                        stored |-> FALSE]
            /\ UNCHANGED cache
       ELSE \E ok \in BOOLEAN, wrote \in BOOLEAN :
                IF ok
                THEN /\ eret' = [op |-> "embed", text |-> t, val |-> ProvVec(provider, t),
                                 fromCache |-> FALSE, before |-> cache[t],
                                 called |-> TRUE, failed |-> FALSE,
                                 stored |-> use_cache /\ wrote]
                     /\ cache' = IF use_cache
                                 THEN SaveToCache(cache, t, ProvVec(provider, t), wrote)
                                 ELSE cache
                ELSE /\ wrote
                     /\ eret' = [op |-> "embed", text |-> t, val |-> Zeros(embed_dim),
                                 fromCache |-> FALSE, before |-> cache[t],
                                 called |-> TRUE, failed |-> TRUE, stored |-> FALSE]
                     /\ cache' = CacheAfterFailure(cache, t)
    /\ UNCHANGED <<provider, use_cache, epc, texts, bsz, wst, slots, out,
                   calls, clean, prev>>
    /\ UNCHANGED <<ivars, qvars, rest>>

\* line 125: the groups of texts
NumBatches(ts, b) == (Len(ts) + b - 1) \div b

BatchOf(ts, b, g) == SubSeq(ts, (g - 1) * b + 1, Min(g * b, Len(ts)))

Queued == [pc |-> "queued", pos |-> 0, result |-> <<>>, misses |-> <<>>, failed |-> "no"]

\* batch_embed(texts, batch_size), to the point where every group is submitted;
\* batch_size 0 stands for None; with track, a call that repeats the texts of
\* the call before it remembers what that call returned
BatchStart(ts, b, track) ==
    /\ epc # "running"
    /\ Len(ts) > 0
    /\ LET size == IF b = 0 THEN MaxBatch ELSE b
       IN  /\ bsz' = size
           /\ wst' = [g \in 1..NumBatches(ts, size) |-> Queued]
           /\ slots' = [g \in 1..NumBatches(ts, size) |-> <<>>]
    /\ texts' = ts
    /\ epc' = "running"
    /\ out' = <<>>
    /\ calls' = 0
    /\ clean' = TRUE
    /\ prev' = IF track /\ epc = "done" /\ texts = ts
               THEN [valid |-> TRUE, out |-> out, clean |-> clean]
               ELSE NoPrev
    /\ eret' = NoERet
    /\ UNCHANGED <<provider, use_cache, cache>>
    /\ UNCHANGED <<ivars, qvars, rest>>

\* lines 121-122: no texts, an empty array at once
BatchEmpty ==
    /\ epc # "running"
    /\ epc' = "done"
    /\ texts' = <<>>
    /\ bsz' = 0
    /\ wst' = <<>>
    /\ slots' = <<>>
    /\ out' = <<>>
    /\ calls' = 0
    /\ clean' = TRUE
    /\ prev' = NoPrev
    /\ eret' = NoERet
    /\ UNCHANGED <<provider, use_cache, cache>>
    /\ UNCHANGED <<ivars, qvars, rest>>

Running(g) == wst[g].pc \in {"cache", "provider", "store", "write"}

Completed(g) == wst[g].pc \in {"returned", "raised"}

Group(g) == BatchOf(texts, bsz, g)

RunFrame == UNCHANGED <<provider, use_cache, epc, texts, bsz, prev, eret>>

\* the pool hands a queued group to a free worker: lines 158-174
WorkerStart(g) ==
    /\ epc = "running"
    /\ wst[g].pc = "queued"
    /\ Cardinality({h \in DOMAIN wst : Running(h)}) < MaxWorkers
    /\ wst' = [wst EXCEPT ![g] =
                 [pc |-> IF use_cache THEN "cache" ELSE "provider",
                  pos |-> 1,
                  result |-> [i \in 1..Len(Group(g)) |-> Zeros(embed_dim)],
                  misses |-> IF use_cache THEN <<>> ELSE [i \in 1..Len(Group(g)) |-> i],
                  failed |-> "no"]]
    /\ RunFrame
    /\ UNCHANGED <<cache, slots, out, calls, clean>>
    /\ UNCHANGED <<ivars, qvars, rest>>

\* a cache hit that leaves the row of zeros in place
CachedRowDropped(cached, row) == row

\* line 169: result[i] = cached
CachedRow(cached, row) == cached

AfterCache(w, n) ==
    IF w.pos <= n THEN w
    ELSE [w EXCEPT !.pc = IF Len(w.misses) = 0 THEN "returned" ELSE "provider"]

\* lines 166-172: one turn of the cache loop; result[i] = cached raises when
\* the cached vector has another length than the row
WorkerCache(g) ==
    /\ epc = "running"
    /\ wst[g].pc = "cache"
    /\ LET w == wst[g]
           i == w.pos
           cached == GetFromCache(cache, Group(g)[i])
       IN  IF cached # NoEntry /\ Len(cached) # embed_dim
           THEN /\ wst' = [wst EXCEPT ![g] = [w EXCEPT !.pc = "raised", !.failed = "raised"]]
                /\ clean' = FALSE
           ELSE /\ wst' = [wst EXCEPT ![g] =
                     AfterCache(
                         IF cached # NoEntry
                         THEN [w EXCEPT !.result[i] = CachedRow(cached, w.result[i]),
                                        !.pos = i + 1]
                         ELSE [w EXCEPT !.misses = Append(w.misses, i), !.pos = i + 1],
                         Len(Group(g)))]
                /\ UNCHANGED clean
    /\ RunFrame
    /\ UNCHANGED <<cache, slots, out, calls>>
    /\ UNCHANGED <<ivars, qvars, rest>>

\* lines 178-187 and 197-199: the provider is called for the misses, once for
\* a local model, once per text for a DSPy embedder; nok calls succeed
WorkerProvider(g, nok) ==
    /\ epc = "running"
    /\ wst[g].pc = "provider"
    /\ LET w == wst[g]
           wanted == IF IsLocal(provider) THEN 1 ELSE Len(w.misses)
       IN  /\ nok <= wanted
           /\ calls' = calls + Min(nok + 1, wanted)
           /\ IF nok = wanted
              THEN /\ wst' = [wst EXCEPT ![g] = [w EXCEPT !.pc = "store", !.pos = 1]]
                   /\ UNCHANGED clean
              ELSE /\ wst' = [wst EXCEPT ![g] = [w EXCEPT !.pc = "returned",
                                                          !.failed = "provider"]]
                   /\ clean' = FALSE
    /\ RunFrame
    /\ UNCHANGED <<cache, slots, out>>
    /\ UNCHANGED <<ivars, qvars, rest>>

\* lines 190-196: one turn of the loop that fills in the new vectors; with
\* caching, np.save then opens the file of the text, which truncates it, or
\* fails to
WorkerStore(g, opened) ==
    /\ epc = "running"
    /\ wst[g].pc = "store"
    /\ LET w == wst[g]
           idx == w.misses[w.pos]
           t == Group(g)[idx]
           last == w.pos = Len(w.misses)
           next == [w EXCEPT !.result[idx] = ProvVec(provider, t),
                             !.pos = w.pos + 1,
                             !.pc = IF last THEN "returned" ELSE "store"]
       IN  IF use_cache
           THEN IF opened
                THEN /\ wst' = [wst EXCEPT ![g] = [w EXCEPT !.result[idx] = ProvVec(provider, t),
                                                            !.pc = "write"]]
                     /\ cache' = [cache EXCEPT ![t] = Partial]
                     /\ UNCHANGED clean
                ELSE /\ wst' = [wst EXCEPT ![g] = next]
                     /\ clean' = FALSE
                     /\ UNCHANGED cache
           ELSE /\ opened
                /\ wst' = [wst EXCEPT ![g] = next]
                /\ UNCHANGED <<cache, clean>>
    /\ RunFrame
    /\ UNCHANGED <<slots, out, calls>>
    /\ UNCHANGED <<ivars, qvars, rest>>

\* line 246: np.save writes the array into the file it opened, or fails on
\* the way, which _save_to_cache logs and ignores
WorkerWrite(g, wrote) ==
    /\ epc = "running"
    /\ wst[g].pc = "write"
    /\ LET w == wst[g]
           t == Group(g)[w.misses[w.pos]]
           last == w.pos = Len(w.misses)
       IN  /\ wst' = [wst EXCEPT ![g] = [w EXCEPT !.pos = w.pos + 1,
                                                  !.pc = IF last THEN "returned" ELSE "store"]]
           /\ cache' = SaveToCache(cache, t, ProvVec(provider, t), wrote)
           /\ clean' = (clean /\ wrote)
    /\ RunFrame
    /\ UNCHANGED <<slots, out, calls>>
    /\ UNCHANGED <<ivars, qvars, rest>>

\* futures taken from as_completed so far
NumCollected == Cardinality({g \in DOMAIN wst : wst[g].pc = "collected"})

\* a slot filled in the order the groups complete
SlotByCompletion(g, n) == n + 1

\* line 136: futures.index(future), the position the group was submitted at
SlotOf(g, n) == g

\* lines 135-143: the next completed future; a raised group becomes zeros
Collect(g) ==
    /\ epc = "running"
    /\ Completed(g)
    /\ slots' = [slots EXCEPT ![SlotOf(g, NumCollected)] =
                    IF wst[g].pc = "raised"
                    THEN [i \in 1..Len(Group(g)) |-> Zeros(embed_dim)]
                    ELSE wst[g].result]
    /\ wst' = [wst EXCEPT ![g] = [pc |-> "collected", pos |-> 0, result |-> <<>>,
                                  misses |-> wst[g].misses, failed |-> wst[g].failed]]
    /\ RunFrame
    /\ UNCHANGED <<cache, out, calls, clean>>
    /\ UNCHANGED <<ivars, qvars, rest>>

RECURSIVE VStack(_)
\* np.vstack
VStack(ms) == IF Len(ms) = 0 THEN <<>> ELSE Head(ms) \o VStack(Tail(ms))

\* line 146
BatchReturn ==
    /\ epc = "running"
    /\ \A g \in DOMAIN wst : wst[g].pc = "collected"
    /\ out' = VStack(slots)
    /\ epc' = "done"
    /\ slots' = <<>>
    /\ UNCHANGED <<provider, use_cache, cache, texts, bsz, wst, calls, clean, prev, eret>>
    /\ UNCHANGED <<ivars, qvars, rest>>

NextEmbed ==
    \/ \E p \in Providers, uc \in BOOLEAN : NewEmbedder(p, uc)
    \/ \E t \in Texts : Embed(t)
    \/ \E o \in Orders, n \in 1..MaxLen, b \in 0..MaxBatch :
           BatchStart(TextList(o, n), b, FALSE)
    \/ BatchEmpty
    \/ \E g \in DOMAIN wst : WorkerStart(g)
    \/ \E g \in DOMAIN wst : WorkerCache(g)
    \/ \E g \in DOMAIN wst, nok \in 0..MaxLen : WorkerProvider(g, nok)
    \/ \E g \in DOMAIN wst, opened \in BOOLEAN : WorkerStore(g, opened)
    \/ \E g \in DOMAIN wst, wrote \in BOOLEAN : WorkerWrite(g, wrote)
    \/ \E g \in DOMAIN wst : Collect(g)
    \/ BatchReturn

\* embed and batch_embed on Embedder instances sharing one cache directory
SpecEmbed == InitEmbed /\ [][NextEmbed]_vars

\* batch_embed calls on one Embedder instance
NextRerun ==
    \/ \E o \in Orders, n \in 1..MaxLen, b \in 0..MaxBatch :
           BatchStart(TextList(o, n), b, TRUE)
    \/ \E g \in DOMAIN wst : WorkerStart(g)
    \/ \E g \in DOMAIN wst : WorkerCache(g)
    \/ \E g \in DOMAIN wst, nok \in 0..MaxLen : WorkerProvider(g, nok)
    \/ \E g \in DOMAIN wst, opened \in BOOLEAN : WorkerStore(g, opened)
    \/ \E g \in DOMAIN wst, wrote \in BOOLEAN : WorkerWrite(g, wrote)
    \/ \E g \in DOMAIN wst : Collect(g)
    \/ BatchReturn

SpecRerun == InitEmbed /\ [][NextRerun]_vars

(***************************************************************************)
(* CodeContextRetriever: index_codebase, query and raw_query.  The         *)
(* embedding of a chunk or of a query text is an input here: chunk c       *)
(* embeds to Vec(d, c), and a query text to any vector of that family,     *)
(* the zero vector of a failed provider call among them.                   *)
(***************************************************************************)
\* the thresholds tried, configured or passed to query
Thresholds == {<<1, 2>>, <<4, 5>>}

\* the chunks extracted from a code base, in file order or in reverse order
CorpusChunks(o, n) == [i \in 1..n |-> IF o = "asc" THEN i ELSE n + 1 - i]

InitQuery ==
    /\ InitIndexVars
    /\ IdleEmbedVars
    /\ retriever = FALSE
    /\ threshold \in {NoThreshold} \cup Thresholds
    /\ default_top_k \in 0..MaxK
    /\ qret = NoQRet
    /\ IdleRest

\* CodeContextRetriever(config_path) over the same index directory, with
\* auto_load_index on or off (lines 130-148): new components, and the
\* retriever set up when the load succeeds
NewRetriever(mt, auto) ==
    /\ IF auto /\ metaFile # NoFile /\ indexFile # NoFile /\ Unpickles(metaFile)
       THEN /\ metadata' = metaFile.metadata
            /\ dimension' = metaFile.dimension
            /\ metric' = LoadedMetric(metaFile, mt)
            /\ index' = IF Readable(use_faiss, indexFile)
                        THEN ReadIndex(use_faiss, indexFile) ELSE NoIndex
            /\ retriever' = LoadReturns(Readable(use_faiss, indexFile))
            /\ ret' = [op |-> "load", val |-> LoadReturns(Readable(use_faiss, indexFile)),
                       fresh |-> TRUE]
       ELSE /\ metadata' = <<>>
            /\ dimension' = NoDim
            /\ metric' = mt
            /\ index' = NoIndex
            /\ retriever' = FALSE
            /\ ret' = IF auto THEN [op |-> "load", val |-> LoadReturns(FALSE), fresh |-> TRUE]
                              ELSE [op |-> "new"]
    /\ qret' = NoQRet
    /\ UNCHANGED <<use_faiss, metaFile, indexFile, saved, threshold, default_top_k>>
    /\ UNCHANGED <<evars, rest>>

\* lines 249-276: index_codebase once all_chunks is complete, save_index
\* left at its default: nothing when there are no chunks, otherwise the
\* embeddings, build, save, and the retriever set up
IndexChunks(d, chunks) ==
    /\ IF Len(chunks) = 0
       THEN UNCHANGED <<ivars, retriever>>
       ELSE \E built \in {BuildIndex(use_faiss, metric, Embeddings(d, chunks))} :
                /\ metadata' = chunks
                /\ dimension' = d
                /\ index' = built
                /\ metaFile' = Envelope(chunks, d, metric)
                /\ indexFile' = WriteIndex(use_faiss, built, indexFile)
                /\ saved' = [built |-> TRUE, metric |-> metric, index |-> built,
                             metadata |-> chunks, dimension |-> d]
                /\ ret' = [op |-> "save"]
                /\ retriever' = TRUE
                /\ UNCHANGED <<use_faiss, metric>>
    /\ qret' = NoQRet
    /\ UNCHANGED <<threshold, default_top_k>>

\* index_codebase(root_dir) on a code base with these chunks
IndexCodebase(d, chunks) ==
    /\ IndexChunks(d, chunks)
    /\ UNCHANGED <<evars, rest>>

\* EnhancedCodeRetriever.raw_search(code_query, top_k), q being the embedding
\* of code_query; top_k < 0 stands for None.  Any exception gives [].
RawSearch(q, k) ==
    LET r == SearchIn(use_faiss, metric, index, metadata, q,
                      IF k < 0 THEN default_top_k ELSE k)
    IN  IF r.raised THEN <<>> ELSE r.val

\* digits of the format template's {score:.4f}
ScoreDigits == 4

RECURSIVE Pow10(_)
Pow10(n) == IF n = 0 THEN 1 ELSE 10 * Pow10(n - 1)

\* <<floor(r * 10^n / den), the remainder>> for 0 <= r < den, digit by digit
RECURSIVE Scaled(_, _, _)
Scaled(r, den, n) ==
    IF n = 0 THEN <<0, r>>
    ELSE CHOOSE x \in {<<p[1] * 10 + (p[2] * 10) \div den, (p[2] * 10) % den>> :
                           p \in {Scaled(r, den, n - 1)}} : TRUE

\* round(num / den, 4 digits) in units of 1/10^4, the fifth digit rounded
\* half to even; num >= 0, den > 0
Rounded(num, den) ==
    LET up(p) == 2 * p[2] > den \/ (2 * p[2] = den /\ p[1] % 2 = 1)
    IN  CHOOSE n \in {(num \div den) * Pow10(ScoreDigits) + p[1] + (IF up(p) THEN 1 ELSE 0) :
                         p \in {Scaled(num % den, den, ScoreDigits)}} : TRUE

\* format(score, '.4f'): sign, whole part and fraction; FLT_MAX prints its
\* 39 digits
FormatScore(s) ==
    IF s[2] = 0 THEN [neg |-> s[1] < 0, whole |-> "FLT_MAX", frac |-> 0]
    ELSE CHOOSE f \in {[neg |-> s[1] < 0,
                        whole |-> n \div Pow10(ScoreDigits),
                        frac |-> n % Pow10(ScoreDigits)] :
                           n \in {Rounded(Abs(s[1]), s[2])}} : TRUE

\* lines 308-315: the template filled in for one result; chunk stands for the
\* file, type, name and full_text fields of the result's metadata entry
Snippet(res) == [chunk |-> res.meta, score |-> FormatScore(res.score)]

\* a query that ignores the configured threshold
EffectiveThresholdArgOnly(t, configured) == t

\* lines 296-297
EffectiveThreshold(t, configured) == IF t = NoThreshold THEN configured ELSE t

\* a filter that keeps the results scoring at most the threshold
KeepBelow(res, t) == RLeq(res.score, t)

\* line 301: res.get('score', 0) >= threshold
Keep(res, t) == RLeq(t, res.score)

\* lines 299-303
Filtered(raw, t) ==
    IF t = NoThreshold THEN raw ELSE SelectSeq(raw, LAMBDA res : Keep(res, t))

\* a retriever check that always passes
NotReadyIgnored(r) == FALSE

\* lines 289 and 331: if not self.retriever
NotReady(r) == ~r

\* query(query, threshold=t), q being the embedding of query
Query(q, t) ==
    /\ IF NotReady(retriever)
       THEN qret' = [op |-> "query", threshold |-> t, raised |-> TRUE,
                     raw |-> <<>>, val |-> <<>>]
       ELSE \E raw \in {RawSearch(q, -1)} :
            \E kept \in {Filtered(raw, EffectiveThreshold(t, threshold))} :
                qret' = [op |-> "query", threshold |-> t, raised |-> FALSE,
                         raw |-> raw,
                         val |-> [i \in 1..Len(kept) |-> Snippet(kept[i])]]
    /\ UNCHANGED <<ivars, evars, retriever, threshold, default_top_k, rest>>

\* raw_query(query, top_k=k)
RawQuery(q, k) ==
    /\ IF NotReady(retriever)
       THEN qret' = [op |-> "raw_query", threshold |-> NoThreshold, raised |-> TRUE,
                     raw |-> <<>>, val |-> <<>>]
       ELSE \E raw \in {RawSearch(q, k)} :
                qret' = [op |-> "raw_query", threshold |-> NoThreshold, raised |-> FALSE,
                         raw |-> raw, val |-> raw]
    /\ UNCHANGED <<ivars, evars, retriever, threshold, default_top_k, rest>>

NextQuery ==
    \/ \E mt \in Metrics, auto \in BOOLEAN : NewRetriever(mt, auto)
    \/ \E d \in Dims, o \in Orders, n \in 0..MaxChunks :
           IndexCodebase(d, CorpusChunks(o, n))
    \/ \E q \in Queries(index), t \in {NoThreshold} \cup Thresholds : Query(q, t)
    \/ \E q \in Queries(index), k \in {-1, 0, MaxK} : RawQuery(q, k)

SpecQuery == InitQuery /\ [][NextQuery]_vars

(***************************************************************************)
(* Claims about the Embedder                                               *)
(***************************************************************************)
\* the provider that computed a non-zero vector
ProducerOf(v) == v[1] \div 10

\* position in texts of item i of group g
RowIndex(g, i) == (g - 1) * bsz + i

IsMiss(g, i) == \E j \in 1..Len(wst[g].misses) : wst[g].misses[j] = i

\* the vectors that can stand for text t: what the provider computes for it,
\* what the cache holds for it, or the zero vector of a failure
VectorsFor(t) == {ProvVec(provider, t), cache[t], Zeros(embed_dim)}

\* C2: row i of batch_embed's output is the vector for input text i, in
\* whatever order the groups complete and whichever of them fail: every
\* filled slot of batch_results holds the rows of the group submitted at that
\* position, and the returned matrix has one row per text, row i for text i.
C2_RowsFollowInput ==
    /\ epc = "running" =>
          \A g \in DOMAIN slots : slots[g] # <<>> =>
              /\ Len(slots[g]) = Len(Group(g))
              /\ \A i \in 1..Len(slots[g]) : slots[g][i] \in VectorsFor(Group(g)[i])
    /\ (epc = "done" /\ Len(texts) > 0) =>
          /\ Len(out) = Len(texts)
          /\ \A i \in 1..Len(out) : out[i] \in VectorsFor(texts[i])

\* the second group, which holds another text than the first, was taken from
\* as_completed before the first, and its rows are computed vectors
C2_Witness ==
    /\ epc = "running"
    /\ Len(wst) >= 2
    /\ slots[1] = <<>>
    /\ slots[2] # <<>>
    /\ Group(1)[1] # Group(2)[1]
    /\ slots[2][1] = ProvVec(provider, Group(2)[1])

\* C3 as claimed: when processing of a group fails, the output rows of all of
\* that group's items are zero vectors; every row of every other group is
\* the vector obtained from the cache or the provider.
C3_FailedGroupAllZero ==
    (epc = "done" /\ Len(texts) > 0) =>
        \A g \in DOMAIN wst : \A i \in 1..Len(Group(g)) :
            IF wst[g].failed # "no"
            THEN out[RowIndex(g, i)] = Zeros(embed_dim)
            ELSE /\ out[RowIndex(g, i)] # Zeros(embed_dim)
                 /\ out[RowIndex(g, i)] \in VectorsFor(Group(g)[i])

\* C3 as amended: a group whose processing raised has only zero rows; a
\* group whose provider call failed has zero rows for its cache misses and
\* the cached vectors for its cache hits; every other group has the
\* provider's vector for each miss and the cached vector for each hit.
C3_FailedGroupZeroMisses ==
    (epc = "done" /\ Len(texts) > 0) =>
        \A g \in DOMAIN wst : \A i \in 1..Len(Group(g)) :
            LET row == out[RowIndex(g, i)]
                t == Group(g)[i]
            IN  CASE wst[g].failed = "raised" -> row = Zeros(embed_dim)
                  [] wst[g].failed = "provider" ->
                        IF IsMiss(g, i) THEN row = Zeros(embed_dim)
                        ELSE row \in VectorsFor(t) /\ row # Zeros(embed_dim)
                  [] OTHER ->
                        IF IsMiss(g, i) THEN row = ProvVec(provider, t)
                        ELSE row \in VectorsFor(t) /\ row # Zeros(embed_dim)

\* a group with one cache hit and one miss whose provider call failed, next
\* to a group that succeeded
C3_Witness ==
    /\ epc = "done"
    /\ \E g \in DOMAIN wst :
          /\ wst[g].failed = "provider"
          /\ Len(Group(g)) = 2
          /\ Len(wst[g].misses) = 1
    /\ \E g \in DOMAIN wst : wst[g].failed = "no"

C10_CacheHitMatchesProvider ==
    (eret.op = "embed" /\ eret.fromCache)
        => /\ Len(eret.val) = embed_dim
           /\ ProducerOf(eret.val) = provider

\* the text has a cache file that np.load reads
HasEntry(e) == e # NoEntry /\ e # Partial

\* C11 as claimed: embed returns the cached vector without calling the
\* provider when the text has a cache entry; on a miss it calls the
\* provider, stores the result and returns it; when the provider call fails
\* it returns a zero vector of embed_dim.
C11_EmbedCacheThenProvider ==
    eret.op = "embed" =>
        IF HasEntry(eret.before)
        THEN ~eret.called /\ eret.val = eret.before
        ELSE /\ eret.called
             /\ IF eret.failed
                THEN eret.val = Zeros(embed_dim)
                ELSE /\ eret.val = ProvVec(provider, eret.text)
                     /\ cache[eret.text] = eret.val

\* C11 as amended: with caching enabled, embed returns the cached vector
\* without calling the provider when the text has a cache entry; otherwise
\* it calls the provider and returns its vector, which it has stored under
\* the text when caching is enabled and the write succeeded, the cache being
\* as before in every other case; when the provider call fails it returns a
\* zero vector of embed_dim and leaves the cache as it was.
C11_EmbedCacheWhenEnabled ==
    eret.op = "embed" =>
        IF use_cache /\ HasEntry(eret.before)
        THEN ~eret.called /\ eret.val = eret.before /\ cache[eret.text] = eret.before
        ELSE /\ eret.called
             /\ IF eret.failed
                THEN eret.val = Zeros(embed_dim) /\ cache[eret.text] = eret.before
                ELSE /\ eret.val = ProvVec(provider, eret.text)
                     /\ cache[eret.text] = IF eret.stored THEN eret.val ELSE eret.before
                     /\ eret.stored => use_cache

\* a call answered from the entry that an earlier miss of the same provider
\* stored
C11_Witness ==
    /\ eret.op = "embed" /\ use_cache
    /\ eret.before = ProvVec(provider, eret.text)
    /\ ~eret.called
    /\ eret.val = eret.before

\* the positions of group g that its worker has filled from the cache
HitPositions(g) ==
    CASE wst[g].pc = "cache" -> {i \in 1..(wst[g].pos - 1) : ~IsMiss(g, i)}
      [] wst[g].pc \in {"provider", "store", "write", "returned"} ->
            {i \in 1..Len(Group(g)) : ~IsMiss(g, i)}
      [] OTHER -> {}

Snippets(results) == [i \in 1..Len(results) |-> Snippet(results[i])]

StrictlyIncreasing(f) == \A i, j \in DOMAIN f : i < j => f[i] < f[j]

\* C6 as claimed: query(text, threshold=None) returns exactly as many
\* results, in the same order, as raw_query(text).
C6_NoThresholdSameAsRaw ==
    (qret.op = "query" /\ ~qret.raised /\ qret.threshold = NoThreshold)
        => qret.val = Snippets(qret.raw)

\* C6 as amended: query(text, threshold=None) returns, in raw_query's order,
\* the raw_query results that score at least the configured
\* retriever.threshold, and all of raw_query's results when none is
\* configured.
C6_NoThresholdFallsBackToConfig ==
    (qret.op = "query" /\ ~qret.raised /\ qret.threshold = NoThreshold)
        => IF threshold = NoThreshold
           THEN qret.val = Snippets(qret.raw)
           ELSE qret.val =
                    Snippets(SelectSeq(qret.raw, LAMBDA res : RLeq(threshold, res.score)))

\* a query without threshold argument under a configured threshold that
\* drops one of three raw results
C6_Witness ==
    /\ qret.op = "query" /\ ~qret.raised /\ qret.threshold = NoThreshold
    /\ threshold # NoThreshold
    /\ Len(qret.raw) = 3
    /\ Len(qret.val) = 2

\* C7: for a threshold t passed to query, every formatted result is the
\* rendering of a raw result scoring at least t, and the results returned
\* stand in the order their raw results had.
C7_ExplicitThresholdFilters ==
    (qret.op = "query" /\ ~qret.raised /\ qret.threshold # NoThreshold)
        => \E f \in [1..Len(qret.val) -> 1..Len(qret.raw)] :
               /\ StrictlyIncreasing(f)
               /\ \A i \in 1..Len(qret.val) :
                      /\ qret.val[i] = Snippet(qret.raw[f[i]])
                      /\ RLeq(qret.threshold, qret.raw[f[i]].score)

\* an explicit threshold that two of three raw results pass, the second of
\* them scoring exactly the threshold, and that the third fails
C7_Witness ==
    /\ qret.op = "query" /\ ~qret.raised /\ qret.threshold # NoThreshold
    /\ Len(qret.raw) = 3
    /\ Len(qret.val) = 2
    /\ qret.val[1] = Snippet(qret.raw[1])
    /\ qret.val[2] = Snippet(qret.raw[2])
    /\ RSame(qret.raw[2].score, qret.threshold)
    /\ RLess(qret.raw[3].score, qret.threshold)

(***************************************************************************)
(* Claims about the VectorIndex                                            *)
(***************************************************************************)
StoredCount == IF Built THEN Len(index.vecs) ELSE 0

\* metadata entry i is the chunk whose embedding is stored vector i
Describes(ix, md) ==
    /\ Len(md) = Len(ix.vecs)
    /\ \A i \in 1..Len(md) : ix.vecs[i].v = Vec(VDim(ix), md[i])

\* C1: after any sequence of build, save and load the number of metadata
\* entries equals the number of stored vectors, and metadata entry i
\* describes stored vector i.
C1_MetadataMatchesVectors ==
    /\ Len(metadata) = StoredCount
    /\ Built => Describes(index, metadata)

\* C9: a build with len(vectors) # len(metadata) (vectors not empty) is
\* reported as a failure and leaves no mismatched vectors and metadata in
\* the index.
C9_MismatchedBuildRejected ==
    (ret.op = "build" /\ ret.nvec > 0 /\ ret.nvec # ret.nmeta)
        => (ret.raised /\ Len(metadata) = StoredCount)

NonIncreasingScores(val) ==
    \A i \in 1..Len(val) : \A j \in 1..Len(val) :
        i < j => RLeq(val[j].score, val[i].score)

\* C8: on a built index holding n entries, search with top_k >= 0 returns at
\* most min(top_k, n) results in order of non-increasing score.
C8_SearchBoundedAndOrdered ==
    (ret.op = "search" /\ ~ret.raised /\ Built /\ Len(metadata) = StoredCount)
        => /\ Len(ret.val) <= Min(ret.top_k, StoredCount)
           /\ NonIncreasingScores(ret.val)

\* every search on the instance as it is now
SearchesNow ==
    [q \in Queries(index), k \in 0..MaxK |->
        SearchIn(use_faiss, metric, index, metadata, q, k)]

\* every search on the instance as it was when it was saved
SearchesSaved ==
    [q \in Queries(saved.index), k \in 0..MaxK |->
        SearchIn(use_faiss, saved.metric, saved.index, saved.metadata, q, k)]

\* C5: save on a built index followed by load on a fresh instance gives the
\* same metadata in the same order, the same dimension and metric, and the
\* same search results for every query vector and top_k.
C5_SaveLoadRoundTrip ==
    (ret.op = "load" /\ ret.fresh /\ saved.built)
        => /\ ret.val
           /\ metadata = saved.metadata
           /\ dimension = saved.dimension
           /\ metric = saved.metric
           /\ SearchesNow = SearchesSaved

\* a fresh instance, configured for the other metric, has loaded a saved
\* two-vector index
C5_Witness ==
    /\ ret.op = "load" /\ ret.fresh /\ ret.val /\ saved.built
    /\ Len(metadata) = 2 /\ Describes(index, metadata)
    /\ metric = "cosine"

C14_RebuildReplaces ==
    (ret.op = "build" /\ ret.nvec > 0 /\ ret.was # NoDim /\ ret.was # ret.d)
        => /\ dimension = ret.d
           /\ metadata = ret.md
           /\ Len(index.vecs) = ret.nvec
           /\ \A i \in 1..Len(index.vecs) : index.vecs[i].v = Vec(ret.d, ret.chunks[i])

\* two 2-dimensional vectors built over an index of 1-dimensional ones
C14_Witness ==
    /\ ret.op = "build" /\ ret.nvec = 2
    /\ ret.was = 1 /\ ret.d = 2
    /\ dimension = 2

\* the artifacts load was given: one is missing or cannot be decoded
Unloadable ==
    \/ metaFile = NoFile
    \/ indexFile = NoFile
    \/ ~Unpickles(metaFile)
    \/ ~Readable(use_faiss, indexFile)

\* C15: load returns False whenever the vector-structure file or the
\* metadata file is missing or cannot be read or decoded.
C15_LoadFailsOnBadArtifact ==
    (ret.op = "load" /\ Unloadable) => ~ret.val

\* a load given a readable envelope and a vector-structure file that was
\* damaged after a save of a built index
C15_Witness ==
    /\ ret.op = "load" /\ ~ret.val
    /\ Unpickles(metaFile)
    /\ indexFile = Damaged
    /\ saved.built

\* the envelope and the vector structure agree: as many metadata entries as
\* vectors, the envelope's dimension that of the vectors, and a FAISS
\* structure of the kind the envelope's metric is searched with
Consistent(env, file) ==
    /\ Len(env.metadata) = Len(file.vecs)
    /\ env.dimension = Len(file.vecs[1].v)
    /\ file.fmt = "faiss" => ((file.kind = "IP") = (env.metric = "cosine"))

C17_NotReadyRaises ==
    (qret.op \in {"query", "raw_query"} /\ index = NoIndex)
        => (qret.raised /\ qret.val = <<>> /\ ~retriever)

\* a query on an instance made with auto_load_index off over a directory
\* that holds a saved index
C17_Witness ==
    /\ qret.op = "query" /\ qret.raised
    /\ index = NoIndex
    /\ metaFile # NoFile /\ indexFile # NoFile

\* the largest distance among the results returned
MaxReturnedDistance(val) == RMax([i \in 1..Len(val) |-> val[i].distance])

\* C18: under the l2 metric the score of each result is
\* 1 - distance / (d_max + 1e-6) with d_max the largest distance among the
\* results returned for the query, on the FAISS path and on the brute-force
\* path.  (A result at distance 0 scores 1 whatever d_max is.)
C18_L2ScoreAgainstReturnedMax ==
    (ret.op = "search" /\ ~ret.raised /\ metric = "l2" /\ Built
        /\ Len(metadata) = StoredCount)
        => \A i \in 1..Len(ret.val) :
               \/ ret.val[i].distance[1] = 0
               \/ ret.val[i].score =
                      L2Score(ret.val[i].distance, MaxReturnedDistance(ret.val))

RECURSIVE Gcd(_, _)
Gcd(a, b) == IF b = 0 THEN a ELSE Gcd(b, a % b)

\* a real <<num, den>> in lowest terms with a non-negative denominator
Reduced(a) ==
    LET g == Gcd(Abs(a[1]), Abs(a[2]))
        s == IF a[2] < 0 THEN -1 ELSE 1
    IN  IF g = 0 THEN a ELSE <<s * (a[1] \div g), s * (a[2] \div g)>>

SameReal(a, b) == Reduced(a) = Reduced(b)

\* the embeddings build was given, read back from the stored vectors
StoredEmbeddings(ix) == [i \in 1..Len(ix.vecs) |-> ix.vecs[i].v]

\* what search returns on an instance of the other backend built from the
\* same embeddings and metadata
OtherBackendSearch(q, top_k) ==
    SearchIn(~use_faiss, metric,
             BuildIndex(~use_faiss, metric, StoredEmbeddings(index)),
             metadata, q, top_k)

SameResults(a, b) ==
    /\ a.raised = b.raised
    /\ Len(a.val) = Len(b.val)
    /\ \A i \in 1..Len(a.val) :
           /\ a.val[i].meta = b.val[i].meta
           /\ SameReal(a.val[i].distance, b.val[i].distance)
           /\ SameReal(a.val[i].score, b.val[i].score)

\* C19: for the same stored vectors, metadata, metric, query vector and
\* top_k, the brute-force fallback and the FAISS backend return the same
\* entries in the same order with the same score and distance values.
C19_BackendsAgree ==
    (ret.op = "search" /\ Built /\ Len(metadata) = StoredCount /\ ret.top_k >= 1)
        => SameResults(ret, OtherBackendSearch(ret.q, ret.top_k))

IsZeroVector(v) == SumSq(v) = 0

\* the stored vector that belongs to metadata entry m
VectorOf(m) == index.vecs[CHOOSE i \in 1..Len(metadata) : metadata[i] = m].v

\* C20: in an index holding a zero vector together with non-zero vectors, a
\* search with a non-zero query ranks the zero-vector entry after every
\* non-zero entry, under cosine and under l2.
C20_ZeroVectorRanksLast ==
    (ret.op = "search" /\ ~ret.raised /\ Built /\ Len(metadata) = StoredCount
        /\ ~IsZeroVector(ret.q))
        => \A i, j \in 1..Len(ret.val) :
               (IsZeroVector(VectorOf(ret.val[i].meta))
                    /\ ~IsZeroVector(VectorOf(ret.val[j].meta)))
                   => j < i

\* C27: a load that returns false leaves the instance unchanged: index,
\* metadata, dimension and metric keep the values they had before the call.
C27_FailedLoadChangesNothing ==
    [][(ret'.op = "load" /\ ~ret'.val)
           => UNCHANGED <<index, metadata, dimension, metric>>]_vars

C29_CacheHoldsProviderVectors ==
    /\ \A t \in Texts :
           GetFromCache(cache, t) \in {NoEntry} \cup {ProvVec(p, t) : p \in Providers}
    /\ (eret.op = "embed" /\ eret.failed)
           => (eret.val = Zeros(embed_dim) /\ cache[eret.text] = eret.before)

\* with caching on, an embed failed for a text that has no entry while the
\* other text is cached
C29_Witness ==
    /\ use_cache
    /\ eret.op = "embed" /\ eret.failed
    /\ cache[eret.text] = NoEntry
    /\ \E t \in Texts \ {eret.text} : cache[t] = ProvVec(provider, t)

(***************************************************************************)
(* CodeContextRetriever._should_exclude.  A path is the sequence of its    *)
(* components (path.split(os.sep)), a component a sequence of characters.  *)
(***************************************************************************)
MaxDepth == 2       \* most components of a path

DotGit == <<".", "g">>              \* '.git'
SrcDir == <<"s">>                   \* 'src'
TestPyc == <<"t", ".", "c">>        \* 'test.pyc'
TestPy == <<"t", ".", "p">>         \* 'test.py'

ReadmeMd == <<"r", ".", "m">>       \* 'README.md'

Names == {DotGit, SrcDir, TestPyc, TestPy, ReadmeMd}

Paths == UNION {[1..n -> Names] : n \in 1..MaxDepth}

\* indexing.exclude_dirs and indexing.exclude_files of the configuration
exclude_dirs == {DotGit}

exclude_files == {<<"*", ".", "c">>}

\* fnmatch.fnmatch(name, pat) on a case-sensitive file system: * matches any
\* run of characters, ? any one character
RECURSIVE FnMatch(_, _)
FnMatch(name, pat) ==
    IF pat = <<>> THEN name = <<>>
    ELSE IF Head(pat) = "*"
    THEN FnMatch(name, Tail(pat)) \/ (name # <<>> /\ FnMatch(Tail(name), pat))
    ELSE /\ name # <<>>
         /\ Head(pat) = "?" \/ Head(pat) = Head(name)
         /\ FnMatch(Tail(name), Tail(pat))

\* os.path.basename
Basename(path) == path[Len(path)]

\* lines 165-177
ShouldExcludeOf(path, disk) ==
    IF \E i \in 1..Len(path) : \E pat \in exclude_dirs : FnMatch(path[i], pat)
    THEN TRUE
    ELSE IF path \in disk
    THEN \E pat \in exclude_files : FnMatch(Basename(path), pat)
    ELSE FALSE

InitExclude ==
    /\ fs \in SUBSET {<<SrcDir, TestPyc>>, <<SrcDir, TestPy>>, <<TestPyc>>}
    /\ content = <<>>
    /\ xret = NoXRet
    /\ IdleWalk
    /\ IdleIndexVars
    /\ IdleEmbedVars
    /\ IdleQueryVars
    /\ IdleApiVars

\* _should_exclude(path)
ShouldExclude(path) ==
    /\ xret' = [op |-> "should_exclude", path |-> path, val |-> ShouldExcludeOf(path, fs)]
    /\ UNCHANGED <<fs, content, files_to_process, parallel, pending, failed, all_chunks, xpc>>
    /\ UNCHANGED <<ivars, evars, qvars, avars>>

NextExclude == \E path \in Paths : ShouldExclude(path)

SpecExclude == InitExclude /\ [][NextExclude]_vars

\* C23: _should_exclude(path) is true for every path with a component
\* matching an exclude_dirs pattern or a basename matching an exclude_files
\* pattern and false for every other path, whether or not the path exists
\* on disk.
C23_ExcludeByPatternAlone ==
    xret.op = "should_exclude"
        => xret.val =
               (\/ \E i \in 1..Len(xret.path) :
                       \E pat \in exclude_dirs : FnMatch(xret.path[i], pat)
                \/ \E pat \in exclude_files : FnMatch(Basename(xret.path), pat))

(***************************************************************************)
(* api/server.py: rate_limit_middleware.  The middleware is a coroutine:   *)
(* lines 58-73 run without a suspension, `await call_next(request)` hands  *)
(* control to the event loop, which may start other requests, and lines    *)
(* 78-90 run without a suspension once the handler has answered.           *)
(***************************************************************************)
MaxRequests == 4    \* most requests the server receives
MaxTicks == 3       \* most advances of the clock

rate_limit == 2     \* config['api']['rate_limit']
Window == 60        \* seconds, lines 69 and 83

InitApi ==
    /\ IdleApiVars
    /\ IdleIndexVars
    /\ IdleEmbedVars
    /\ IdleQueryVars
    /\ IdleExtractVars

\* line 69: the window of the entry is running
InWindowOf(entry) == now - entry[1] < Window

\* lines 67-69: the request is turned away
Limited(entry) == entry # NoLimit /\ InWindowOf(entry) /\ entry[2] >= rate_limit

\* lines 58-75: a request of client ip arrives and is answered 429 or
\* passed to the handler
Receive(ip) ==
    /\ arrived < MaxRequests
    /\ arrived' = arrived + 1
    /\ IF Limited(rate_limits[ip])
       THEN /\ aret' = [op |-> "response", ip |-> ip, status |-> 429]
            /\ UNCHANGED <<handling, in_window>>
       ELSE /\ handling' = [handling EXCEPT ![ip] = @ + 1]
            /\ in_window' = IF rate_limits[ip] # NoLimit /\ InWindowOf(rate_limits[ip])
                            THEN [in_window EXCEPT ![ip] = @ + 1]
                            ELSE in_window
            /\ aret' = [op |-> "call_next", ip |-> ip]
    /\ UNCHANGED <<rate_limits, now>>
    /\ UNCHANGED <<ivars, evars, qvars, xvars>>

\* lines 81-88: the entry after one more answered request
Counted(entry) ==
    IF entry # NoLimit /\ InWindowOf(entry) THEN <<entry[1], entry[2] + 1>>
    ELSE <<now, 1>>

\* lines 75-90: the handler of a request of client ip answers, the counter
\* is updated and the response returned
Respond(ip) ==
    /\ handling[ip] > 0
    /\ handling' = [handling EXCEPT ![ip] = @ - 1]
    /\ rate_limits' = [rate_limits EXCEPT ![ip] = Counted(rate_limits[ip])]
    /\ in_window' = IF rate_limits[ip] # NoLimit /\ InWindowOf(rate_limits[ip])
                    THEN in_window
                    ELSE [in_window EXCEPT ![ip] = 0]
    /\ aret' = [op |-> "response", ip |-> ip, status |-> 200]
    /\ UNCHANGED <<now, arrived>>
    /\ UNCHANGED <<ivars, evars, qvars, xvars>>

\* half a window passes
Tick ==
    /\ now < MaxTicks * (Window \div 2)
    /\ now' = now + Window \div 2
    /\ aret' = [op |-> "tick"]
    /\ UNCHANGED <<rate_limits, handling, arrived, in_window>>
    /\ UNCHANGED <<ivars, evars, qvars, xvars>>

NextApi ==
    \/ \E ip \in IPs : Receive(ip)
    \/ \E ip \in IPs : Respond(ip)
    \/ Tick

SpecApi == InitApi /\ [][NextApi]_vars

\* C30: for every client IP and every interleaving of concurrent requests
\* the middleware passes at most rate_limit requests of that IP to the
\* handler within the 60-second window that starts at the IP's recorded
\* timestamp; every further request in that window gets status 429.
C30_AtMostRateLimitPerWindow ==
    \A ip \in IPs : in_window[ip] <= rate_limit

(***************************************************************************)
(* CodeContextRetriever.index_codebase: the walk over the code base, the   *)
(* extraction of every eligible file and the aggregation of the chunks     *)
(***************************************************************************)
\* the files a code base may hold
CorpusFiles == {<<TestPy>>, <<SrcDir, TestPy>>, <<SrcDir, ReadmeMd>>,
                <<SrcDir, TestPyc>>, <<DotGit, TestPy>>}

\* os.path.splitext(fname)[1].lower(), without its dot
Ext(name) ==
    IF Len(name) > 2 /\ name[Len(name) - 1] = "." THEN name[Len(name)] ELSE ""

\* ExtractorFactory.extractors: the extensions with a registered extractor
Registered == {"p", "m"}

\* lines 195-214: os.walk reaches the file (no directory above it is
\* pruned), it is not excluded, passes the extension filter when there is
\* one, and has an extractor
Eligible(path, disk, extensions) ==
    /\ path \in disk
    /\ \A n \in 1..(Len(path) - 1) : ~ShouldExcludeOf(SubSeq(path, 1, n), disk)
    /\ ~ShouldExcludeOf(path, disk)
    /\ extensions = {} \/ Ext(Basename(path)) \in extensions
    /\ Ext(Basename(path)) \in Registered

FileNo(path) ==
    IF path = <<TestPy>> THEN 1
    ELSE IF path = <<SrcDir, TestPy>> THEN 2
    ELSE IF path = <<SrcDir, ReadmeMd>> THEN 3
    ELSE IF path = <<SrcDir, TestPyc>> THEN 4
    ELSE 5

\* the chunks extract_chunks returns for the file
ChunksOf(path) == IF FileNo(path) = 1 THEN <<1, 2>> ELSE <<FileNo(path) + 1>>

\* os.walk is top-down: the files of a directory come before those of its
\* subdirectories; the order inside a directory is the file system's
WalkKey(path, o) ==
    IF Len(path) = 1 THEN 0
    ELSE IF o = "asc" THEN FileNo(path) ELSE Cardinality(CorpusFiles) + 1 - FileNo(path)

FilesToProcess(disk, extensions, o) ==
    LET E == {path \in disk : Eligible(path, disk, extensions)}
    IN  CHOOSE seq \in [1..Cardinality(E) -> E] :
            \A i, j \in 1..Cardinality(E) :
                i < j => WalkKey(seq[i], o) < WalkKey(seq[j], o)

InitWalk ==
    /\ fs \in SUBSET CorpusFiles
    /\ content = <<>>
    /\ xret = NoXRet
    /\ IdleWalk
    /\ InitIndexVars
    /\ IdleEmbedVars
    /\ IdleQueryVars
    /\ IdleApiVars

\* lines 191-229: index_codebase(root_dir, extensions, parallel) up to the
\* point where extraction starts
WalkStart(extensions, par, o) ==
    /\ xpc # "extract"
    /\ \E todo \in {FilesToProcess(fs, extensions, o)} :
           /\ files_to_process' = todo
           /\ parallel' = (par /\ Len(todo) > 1)
           /\ pending' = 1..Len(todo)
    /\ failed' = {}
    /\ all_chunks' = <<>>
    /\ xpc' = "extract"
    /\ xret' = [op |-> "index_codebase", extensions |-> extensions]
    /\ UNCHANGED <<fs, content>>
    /\ UNCHANGED <<ivars, evars, qvars, avars>>

\* an except clause that gives up on what was gathered so far
AggregateReplace(acc, chunks) == chunks

\* lines 232 and 241: all_chunks.extend(chunks)
Aggregate(acc, chunks) == acc \o chunks

\* lines 228-235 and 238-244: the next file is taken, the next completed
\* future when extraction is parallel, the next of the list otherwise; its
\* chunks are added, or its exception is logged
Extract(i, ok) ==
    /\ xpc = "extract"
    /\ i \in pending
    /\ parallel \/ \A j \in pending : i <= j
    /\ pending' = pending \ {i}
    /\ all_chunks' = IF ok THEN Aggregate(all_chunks, ChunksOf(files_to_process[i]))
                     ELSE all_chunks
    /\ failed' = IF ok THEN failed ELSE failed \cup {i}
    /\ UNCHANGED <<fs, content, xret, files_to_process, parallel, xpc>>
    /\ UNCHANGED <<ivars, evars, qvars, avars>>

\* lines 246-276: the chunks are embedded, indexed and saved
WalkFinish(d) ==
    /\ xpc = "extract"
    /\ pending = {}
    /\ IndexChunks(d, all_chunks)
    /\ xpc' = "done"
    /\ UNCHANGED <<fs, content, xret, files_to_process, parallel, pending, failed, all_chunks>>
    /\ UNCHANGED <<evars, avars>>

NextWalk ==
    \/ \E extensions \in {{}, {"p"}}, par \in BOOLEAN, o \in Orders :
           WalkStart(extensions, par, o)
    \/ \E i \in pending, ok \in BOOLEAN : Extract(i, ok)
    \/ \E d \in Dims : WalkFinish(d)

SpecWalk == InitWalk /\ [][NextWalk]_vars

\* the positions at which chunk c stands in a list of chunks
PositionsOf(c, chunks) == {k \in 1..Len(chunks) : chunks[k] = c}

\* C22: in index_codebase, parallel or sequential, a failure while
\* extracting one file does not abort the run: the chunks of every other
\* eligible file are aggregated exactly once each, and are embedded and
\* indexed.
C22_FailedFileIsSkipped ==
    xpc = "done"
        => /\ \A path \in fs :
                  (/\ Eligible(path, fs, xret.extensions)
                   /\ \A i \in failed : files_to_process[i] # path)
                      => \A k \in 1..Len(ChunksOf(path)) :
                             /\ Cardinality(PositionsOf(ChunksOf(path)[k], all_chunks)) = 1
                             /\ Cardinality(PositionsOf(ChunksOf(path)[k], metadata)) = 1
           /\ all_chunks # <<>>
                  => (metadata = all_chunks /\ index # NoIndex
                      /\ Describes(index, metadata) /\ retriever)

\* parallel extraction of three eligible files: the second failed, the
\* third completed before the first, and the chunks of both are indexed
C22_Witness ==
    /\ xpc = "done" /\ parallel
    /\ Len(files_to_process) = 3
    /\ failed = {2}
    /\ all_chunks = ChunksOf(files_to_process[3]) \o ChunksOf(files_to_process[1])
    /\ metadata = all_chunks /\ Describes(index, metadata)

(***************************************************************************)
(* extractors/markdown_extractor.py.  A file's text is a sequence of       *)
(* characters: "#", a space, a letter "x" and the newline.                 *)
(***************************************************************************)
MaxContent == 7     \* most characters of a Markdown file

NL == "\n"

MdChars == {"#", " ", "x", NL}

MdContents == UNION {[1..n -> MdChars] : n \in 0..MaxContent}

\* \s of the regular expressions
IsSpace(c) == c \in {" ", NL}

\* content.count('\n')
CountNL(t) == Cardinality({i \in 1..Len(t) : t[i] = NL})

\* content.strip() is not empty
HasText(t) == \E i \in 1..Len(t) : ~IsSpace(t[i])

\* the number of characters from position p on that satisfy Is
Run(t, p, Is(_)) ==
    CHOOSE n \in 0..(Len(t) + 1 - p) :
        /\ \A i \in 0..(n - 1) : Is(t[p + i])
        /\ p + n > Len(t) \/ ~Is(t[p + n])

IsHash(c) == c = "#"

\* where $ matches at or after position e: the end of the text or a newline
LineEndFrom(t, e) ==
    CHOOSE f \in e..(Len(t) + 1) :
        /\ f > Len(t) \/ t[f] = NL
        /\ \A i \in e..(f - 1) : t[i] # NL

MaxHashes == 6      \* #{1,6}

\* line 102: ^(#{1,6})\s+(.+?)$ with re.MULTILINE tried at position p; the
\* position after the match, 0 when there is none.  \s+ is greedy and gives
\* characters back until a character other than the newline follows it;
\* .+? stops at the first end of line.
HeadingEnd(t, p) ==
    IF ~(p = 1 \/ t[p - 1] = NL) THEN 0
    ELSE LET n == Run(t, p, IsHash)
             q == p + n
             w == IF q > Len(t) THEN 0 ELSE Run(t, q, IsSpace)
             K == {k \in 1..w : q + k <= Len(t) /\ t[q + k] # NL}
         IN  IF n < 1 \/ n > MaxHashes \/ K = {} THEN 0
             ELSE LineEndFrom(t, q + (CHOOSE k \in K : \A j \in K : j <= k) + 1)

\* line 103: heading_pattern.finditer(content), the start of every match
RECURSIVE HeadingsFrom(_, _)
HeadingsFrom(t, p) ==
    IF p > Len(t) THEN <<>>
    ELSE IF HeadingEnd(t, p) # 0 THEN <<p>> \o HeadingsFrom(t, HeadingEnd(t, p))
    ELSE HeadingsFrom(t, p + 1)

\* _split_by_headings: the content of every section
SplitByHeadings(t) ==
    LET h == HeadingsFrom(t, 1)
    IN  IF Len(h) = 0 THEN <<t>>
        ELSE [i \in 1..Len(h) |->
                 SubSeq(t, h[i], IF i < Len(h) THEN h[i + 1] - 1 ELSE Len(t))]

Chunk(type, text, first, last) ==
    [type |-> type, full_text |-> text, line_start |-> first, line_end |-> last]

\* lines 58-82: the section chunks, line_count running over the sections
RECURSIVE SectionChunks(_, _, _)
SectionChunks(sections, i, line_count) ==
    IF i > Len(sections) THEN <<>>
    ELSE IF ~HasText(sections[i]) THEN SectionChunks(sections, i + 1, line_count)
    ELSE LET line_end == line_count + (CountNL(sections[i]) + 1) - 1
         IN  <<Chunk("section", sections[i], line_count, line_end)>>
                 \o SectionChunks(sections, i + 1, line_end + 1)

\* lines 42-52: the chunk for the whole file
DocumentChunk(t) == Chunk("document", t, 1, CountNL(t) + 1)

\* MarkdownExtractor.extract_chunks on a readable file with this text
MarkdownChunks(t, split_by_headings) ==
    <<DocumentChunk(t)>>
        \o (IF split_by_headings THEN SectionChunks(SplitByHeadings(t), 1, 1) ELSE <<>>)

InitMarkdown ==
    /\ content \in MdContents
    /\ fs = {}
    /\ xret = NoXRet
    /\ IdleWalk
    /\ IdleIndexVars
    /\ IdleEmbedVars
    /\ IdleQueryVars
    /\ IdleApiVars

ExtractMarkdown(split_by_headings) ==
    /\ xret' = [op |-> "extract_chunks", split |-> split_by_headings,
                val |-> MarkdownChunks(content, split_by_headings)]
    /\ UNCHANGED <<fs, content, files_to_process, parallel, pending, failed, all_chunks, xpc>>
    /\ UNCHANGED <<ivars, evars, qvars, avars>>

NextMarkdown == \E split_by_headings \in BOOLEAN : ExtractMarkdown(split_by_headings)

SpecMarkdown == InitMarkdown /\ [][NextMarkdown]_vars

\* C21: every chunk an extractor returns for a readable file, an empty or
\* whitespace-only one included, has line_start <= line_end and a
\* non-empty full_text.
C21_ChunksHaveTextAndLines ==
    xret.op = "extract_chunks"
        => \A i \in 1..Len(xret.val) :
               /\ xret.val[i].line_start <= xret.val[i].line_end
               /\ xret.val[i].full_text # <<>>

\* the 1-based line of the file on which position p lies
LineOf(t, p) == 1 + CountNL(SubSeq(t, 1, p - 1))

\* C26: with heading-splitting enabled the Markdown extractor emits one
\* section chunk per heading; its text runs from the heading line to the
\* line before the next heading (or the end of the file), its line_start
\* and line_end are the 1-based file lines of that first and last line,
\* also when text precedes the first heading, and consecutive section
\* ranges do not overlap.
C26_SectionsCarryFileLines ==
    (xret.op = "extract_chunks" /\ xret.split /\ HeadingsFrom(content, 1) # <<>>)
        => LET h == HeadingsFrom(content, 1)
               sec == SubSeq(xret.val, 2, Len(xret.val))
               stop(i) == IF i < Len(h) THEN h[i + 1] - 1 ELSE Len(content)
           IN  /\ Len(sec) = Len(h)
               /\ \A i \in 1..Len(h) :
                      /\ sec[i].type = "section"
                      /\ sec[i].full_text = SubSeq(content, h[i], stop(i))
                      /\ sec[i].line_start = LineOf(content, h[i])
                      /\ IF i < Len(h)
                         THEN /\ sec[i].line_end = LineOf(content, h[i + 1]) - 1
                              /\ sec[i].line_end < sec[i + 1].line_start
                         ELSE sec[i].line_end \in {LineOf(content, Len(content)),
                                                   CountNL(content) + 1}

(***************************************************************************)
(* extractors/typescript_extractor.py.  A file's text is a sequence of     *)
(* pieces, each standing for a fixed text:                                 *)
(*   "F"  function f() {        a declaration _extract_functions matches,  *)
(*                              with its opening brace                     *)
(*   "A"  const a = () => (1);  a declaration _extract_arrow_functions     *)
(*                              matches, its body opening with a "("       *)
(*   "{"  if (x) {              an opening brace that is no declaration's  *)
(*   "}"                        a closing brace                            *)
(*   "D1" /** one */   "D2" /** two */     JSDoc comments                  *)
(*   "x"  x;                    other code                                 *)
(*   "W"                        a newline                                  *)
(***************************************************************************)
MaxTokens == 5      \* most pieces of a TypeScript file

TsTokens == {"F", "A", "{", "}", "D1", "D2", "x", "W"}

TsContents == UNION {[1..n -> TsTokens] : n \in 0..MaxTokens}

Opens(tok) == tok \in {"F", "{"}

IsDoc(tok) == tok \in {"D1", "D2"}

\* content[:k].count('\n') + 1, k the end of piece number n
LinesUpTo(t, n) == Cardinality({i \in 1..n : t[i] = "W"}) + 1

\* lines 199-208: braces counted from the piece after the opening brace;
\* the piece at which the count returns to zero, 0 when it never does
RECURSIVE BlockEnd(_, _, _)
BlockEnd(t, pos, brace_count) ==
    IF brace_count = 0 THEN pos - 1
    ELSE IF pos > Len(t) THEN 0
    ELSE BlockEnd(t, pos + 1,
                  IF Opens(t[pos]) THEN brace_count + 1
                  ELSE IF t[pos] = "}" THEN brace_count - 1
                  ELSE brace_count)

NoBlock == [snippet |-> <<>>, line_start |-> 0, line_end |-> 0]

\* _extract_code_block(content, start_pos), start_pos the start of piece i
ExtractCodeBlock(t, i) ==
    IF ~\E j \in i..Len(t) : Opens(t[j]) THEN NoBlock
    ELSE LET open_brace_pos == CHOOSE j \in i..Len(t) :
                                   Opens(t[j]) /\ \A k \in i..(j - 1) : ~Opens(t[k])
             end_pos == BlockEnd(t, open_brace_pos + 1, 1)
         IN  IF end_pos = 0 THEN NoBlock
             ELSE [snippet |-> SubSeq(t, i, end_pos),
                   line_start |-> LinesUpTo(t, i - 1),
                   line_end |-> LinesUpTo(t, end_pos)]

\* content[:pos].rstrip(), pos the start of piece i
SearchArea(t, i) ==
    LET kept == {n \in 0..(i - 1) : \A k \in (n + 1)..(i - 1) : t[k] = "W"}
    IN  SubSeq(t, 1, CHOOSE n \in kept : \A m \in kept : n <= m)

NoDoc == ""

\* line 178: re.search finds the leftmost /** ... */ of the area
FirstDocMatch(area) ==
    CHOOSE k \in 1..Len(area) : IsDoc(area[k]) /\ \A j \in 1..(k - 1) : ~IsDoc(area[j])

\* _extract_docstring(content, pos): the comment found, when the area ends
\* with its text
ExtractDocstring(t, i) ==
    LET area == SearchArea(t, i)
    IN  IF ~\E k \in 1..Len(area) : IsDoc(area[k]) THEN NoDoc
        ELSE IF area[Len(area)] = area[FirstDocMatch(area)]
        THEN area[FirstDocMatch(area)]
        ELSE NoDoc

\* lines 61-81 and 151-171: the chunks of the declarations of one kind, in
\* the order finditer meets them
RECURSIVE DeclChunks(_, _, _)
DeclChunks(t, kind, i) ==
    IF i > Len(t) THEN <<>>
    ELSE IF t[i] # kind THEN DeclChunks(t, kind, i + 1)
    ELSE LET block == ExtractCodeBlock(t, i)
             docstring == ExtractDocstring(t, i)
         IN  (IF block.snippet = <<>> THEN <<>>
              ELSE <<[type |-> kind, at |-> i, code |-> block.snippet,
                      docstring |-> docstring,
                      full_text |-> IF docstring # NoDoc
                                    THEN block.snippet \o <<"W", docstring>>
                                    ELSE block.snippet,
                      line_start |-> block.line_start,
                      line_end |-> block.line_end]>>)
                 \o DeclChunks(t, kind, i + 1)

\* TypeScriptExtractor.extract_chunks on a readable file with this text
TypeScriptChunks(t) == DeclChunks(t, "F", 1) \o DeclChunks(t, "A", 1)

InitTypeScript ==
    /\ content \in TsContents
    /\ fs = {}
    /\ xret = NoXRet
    /\ IdleWalk
    /\ IdleIndexVars
    /\ IdleEmbedVars
    /\ IdleQueryVars
    /\ IdleApiVars

ExtractTypeScript ==
    /\ xret' = [op |-> "extract_chunks", val |-> TypeScriptChunks(content)]
    /\ UNCHANGED <<fs, content, files_to_process, parallel, pending, failed, all_chunks, xpc>>
    /\ UNCHANGED <<ivars, evars, qvars, avars>>

NextTypeScript == ExtractTypeScript

SpecTypeScript == InitTypeScript /\ [][NextTypeScript]_vars

\* the JSDoc comment that immediately precedes piece i, whitespace ignored
PrecedingDoc(t, i) ==
    LET area == SearchArea(t, i)
    IN  IF Len(area) > 0 /\ IsDoc(area[Len(area)]) THEN area[Len(area)] ELSE NoDoc

\* C24: the docstring of every chunk of the TypeScript/JavaScript extractor
\* is the interior text of the /** ... */ comment that immediately precedes
\* the declaration (ignoring whitespace), whatever other block comments
\* occur earlier in the file, and is empty when no such comment
\* immediately precedes it.
C24_DocstringIsPrecedingComment ==
    xret.op = "extract_chunks"
        => \A n \in 1..Len(xret.val) :
               xret.val[n].docstring = PrecedingDoc(content, xret.val[n].at)

\* opening braces less closing braces in the first n pieces
Depth(t, n) ==
    Cardinality({i \in 1..n : Opens(t[i])}) - Cardinality({i \in 1..n : t[i] = "}"})

\* exactly one opening brace has no partner, and every closing brace has one
OneUnmatchedOpening(t) ==
    /\ Depth(t, Len(t)) = 1
    /\ \A n \in 0..Len(t) : Depth(t, n) >= 0

\* the same text with the open brace closed at its end
Closed(t) == Append(t, "}")

\* C25: a TypeScript/JavaScript input with exactly one unmatched opening
\* brace yields exactly one chunk fewer than the same input with that brace
\* closed: the candidate whose brace count never returns to zero is the
\* only one skipped.
C25_OneUnmatchedBraceOneChunkFewer ==
    (xret.op = "extract_chunks" /\ OneUnmatchedOpening(content))
        => Len(xret.val) + 1 = Len(TypeScriptChunks(Closed(content)))

====
